---------------------------- MODULE Spec2Model ----------------------------
(***************************************************************************)
(* Session store and request pipeline of the task-manager client           *)
(* (src/src/lib/api.ts, class ApiClient), run in a browser: window,        *)
(* localStorage and sessionStorage exist.                                  *)
(*                                                                         *)
(* Optional JavaScript values (null / undefined / absent) are written      *)
(* None == <<>> and a present value v is Some(v) == <<v>>.  Strings that   *)
(* the code builds by concatenation are sequences of their parts.          *)
(***************************************************************************)
EXTENDS Integers, Sequences, FiniteSets, Bags, TLC

VARIABLES
    token,            \* ApiClient.token
    tokenExpiresAt,   \* ApiClient.tokenExpiresAt (epoch milliseconds)
    localStorage,     \* keys auth_token, auth_token_expires_at
    sessionStorage,   \* key session_expired
    now,              \* Date.now()
    pathname,         \* window.location.pathname
    nav,              \* navigation started by window.location.href = ... , not yet loaded
    inflight,         \* bag of the requests handed to fetch() and still pending, of
                      \* callers other than useTasks
    last,             \* what the latest step did, as its caller observes it
    cookie,           \* the auth_token cookie is present (the backend sets it)
    route,            \* navigation started by router.replace(...), not yet done
    view,             \* the page whose components are mounted
    watcher,          \* useTokenExpiration of the mounted TasksPage
    timers,           \* the intervals set by setInterval and not cleared
    isAuthenticated,  \* useAuth's state in the mounted page
    hook,             \* useTasks' state in the mounted TasksPage
    calls             \* bag of the calls of apiClient that useTasks awaits

\* what the pages and the route gate add to the client
ui == <<cookie, route, view, watcher, timers, isAuthenticated, hook, calls>>

vars == <<token, tokenExpiresAt, localStorage, sessionStorage, now, pathname,
          nav, inflight, last, cookie, route, view, watcher, timers,
          isAuthenticated, hook, calls>>

-----------------------------------------------------------------------------
(* Bounds of the model *)

MaxInFlight == 1      \* requests pending at once
MaxTicks == 2         \* clock steps after the start
MaxCalls == 2         \* calls of apiClient that useTasks awaits at once
MaxMutations == 1     \* of them, mutations (with their re-fetches)
MaxRacing == 2        \* requests pending at once while a login races a request

(* Program constants *)

MsPerSecond == 1000
DefaultSize == 20

(* The clock: half-second steps from a start far above zero, as Date.now() is *)

TickMs == MsPerSecond \div 2
StartTime == 2 * MsPerSecond
MaxTime == StartTime + MaxTicks * TickMs

-----------------------------------------------------------------------------
(* Values *)

None == <<>>
Some(v) == <<v>>

Tokens == {"A", "B"}
\* expiresInSeconds as a server or a caller gives it: 0, and a lifetime that
\* ends two clock steps later
Lifetimes == {0, 1}
\* thresholdSeconds asked of isTokenExpiringSoon
Thresholds == {0, 1, 2}
Paths == {"/login", "/tasks"}
TaskOps == {"getTasks", "getTask", "createTask", "updateTask", "deleteTask"}
Ops == {"login", "logout"} \cup TaskOps

\* a JavaScript string | null | undefined used as a condition
TruthyString(o) == o # None /\ o[1] # ""

\* a JavaScript number | null | undefined used as a condition
TruthyNumber(o) == o # None /\ o[1] # 0

-----------------------------------------------------------------------------
(* Number.prototype.toString and parseInt(s, 10) on integers: a decimal     *)
(* string is the sequence of its characters                                *)

DigitChars == <<"0", "1", "2", "3", "4", "5", "6", "7", "8", "9">>

RECURSIVE NatToString(_)
NatToString(n) ==
    IF n < 10 THEN <<DigitChars[n + 1]>>
    ELSE NatToString(n \div 10) \o <<DigitChars[(n % 10) + 1]>>

NumberToString(n) == IF n < 0 THEN <<"-">> \o NatToString(0 - n) ELSE NatToString(n)

DigitValue(c) == (CHOOSE i \in 1..10 : DigitChars[i] = c) - 1

RECURSIVE ParseNat(_, _)
ParseNat(s, acc) ==
    IF s = <<>> THEN acc
    ELSE ParseNat(Tail(s), acc * 10 + DigitValue(Head(s)))

\* defined on the strings toString writes; nothing else is ever stored
ParseInt(s) == IF Head(s) = "-" THEN 0 - ParseNat(Tail(s), 0) ELSE ParseNat(s, 0)


-----------------------------------------------------------------------------
(* Session Store: ApiClient's token fields and their persisted copies.     *)
(* A session s is [token, tokenExpiresAt, localStorage].                   *)

EmptyStorage == [auth_token |-> None, auth_token_expires_at |-> None]

Session == [token |-> token, tokenExpiresAt |-> tokenExpiresAt,
            localStorage |-> localStorage]

\* new ApiClient(baseUrl): the fields are read from localStorage once
Construct(ls) ==
    [token |-> ls.auth_token,
     tokenExpiresAt |-> IF TruthyString(ls.auth_token_expires_at)
                        THEN Some(ParseInt(ls.auth_token_expires_at[1]))
                        ELSE None,
     localStorage |-> ls]

\* setToken that keeps a new expiry in memory without persisting it
setToken_ExpiryInMemoryOnly(s, tk, expiresInSeconds, t) ==
    IF TruthyString(tk)
    THEN IF TruthyNumber(expiresInSeconds)
         THEN LET expiresAt == t + expiresInSeconds[1] * MsPerSecond
              IN  [token |-> tk,
                   tokenExpiresAt |-> Some(expiresAt),
                   localStorage |-> [s.localStorage EXCEPT !.auth_token = tk]]
         ELSE [token |-> tk,
               tokenExpiresAt |-> s.tokenExpiresAt,
               localStorage |-> [s.localStorage EXCEPT !.auth_token = tk]]
    ELSE [token |-> tk,
          tokenExpiresAt |-> None,
          localStorage |-> EmptyStorage]

\* setToken whose clearing branch forgets the expiry
setToken_KeepsExpiry(s, tk, expiresInSeconds, t) ==
    IF TruthyString(tk)
    THEN IF TruthyNumber(expiresInSeconds)
         THEN LET expiresAt == t + expiresInSeconds[1] * MsPerSecond
              IN  [token |-> tk,
                   tokenExpiresAt |-> Some(expiresAt),
                   localStorage |->
                       [auth_token |-> tk,
                        auth_token_expires_at |-> Some(NumberToString(expiresAt))]]
         ELSE [token |-> tk,
               tokenExpiresAt |-> s.tokenExpiresAt,
               localStorage |-> [s.localStorage EXCEPT !.auth_token = tk]]
    ELSE [token |-> tk,
          tokenExpiresAt |-> s.tokenExpiresAt,
          localStorage |-> EmptyStorage]

\* setToken(tk, expiresInSeconds) called at time t
setToken(s, tk, expiresInSeconds, t) ==
    IF TruthyString(tk)
    THEN IF TruthyNumber(expiresInSeconds)
         THEN LET expiresAt == t + expiresInSeconds[1] * MsPerSecond
              IN  [token |-> tk,
                   tokenExpiresAt |-> Some(expiresAt),
                   localStorage |->
                       [auth_token |-> tk,
                        auth_token_expires_at |-> Some(NumberToString(expiresAt))]]
         ELSE [token |-> tk,
               tokenExpiresAt |-> s.tokenExpiresAt,
               localStorage |-> [s.localStorage EXCEPT !.auth_token = tk]]
    ELSE [token |-> tk,
          tokenExpiresAt |-> None,
          localStorage |-> EmptyStorage]

getToken(s) == s.token

getTokenExpiresAt(s) == s.tokenExpiresAt

\* isTokenExpired taking a token without a recorded expiry for expired
isTokenExpired_UnknownIsExpired(s, t) ==
    IF ~TruthyString(s.token) THEN TRUE
    ELSE IF ~TruthyNumber(s.tokenExpiresAt) THEN TRUE
    ELSE t >= s.tokenExpiresAt[1]

\* isTokenExpired comparing with > where the code has >=
isTokenExpired_Strict(s, t) ==
    IF ~TruthyString(s.token) THEN TRUE
    ELSE IF ~TruthyNumber(s.tokenExpiresAt) THEN FALSE
    ELSE t > s.tokenExpiresAt[1]

isTokenExpired(s, t) ==
    IF ~TruthyString(s.token) THEN TRUE
    ELSE IF ~TruthyNumber(s.tokenExpiresAt) THEN FALSE
    ELSE t >= s.tokenExpiresAt[1]

\* isTokenExpiringSoon taking the threshold in milliseconds
isTokenExpiringSoon_NoScale(s, thresholdSeconds, t) ==
    IF ~TruthyString(s.token) \/ ~TruthyNumber(s.tokenExpiresAt) THEN FALSE
    ELSE t >= s.tokenExpiresAt[1] - thresholdSeconds

isTokenExpiringSoon(s, thresholdSeconds, t) ==
    IF ~TruthyString(s.token) \/ ~TruthyNumber(s.tokenExpiresAt) THEN FALSE
    ELSE LET thresholdMs == thresholdSeconds * MsPerSecond
         IN  t >= s.tokenExpiresAt[1] - thresholdMs

-----------------------------------------------------------------------------
(* Request Pipeline: what ApiClient.request sends *)

Method(op) ==
    CASE op \in {"login", "logout", "createTask"} -> "POST"
      [] op = "updateTask" -> "PUT"
      [] op = "deleteTask" -> "DELETE"
      [] OTHER -> "GET"

Endpoint(op) ==
    CASE op = "login" -> "/api/v1/auth/login"
      [] op = "logout" -> "/api/v1/auth/logout"
      [] op \in {"getTasks", "createTask"} -> "/api/v1/tasks"
      [] OTHER -> "/api/v1/tasks/{id}"

\* headers that carry Authorization whether or not a token is stored
Headers_AlwaysAuthorization(s) ==
    ("Content-Type" :> <<"application/json">>)
    @@ ("Authorization" :> <<"Bearer ", IF s.token = None THEN "null" ELSE s.token[1]>>)

\* the headers object handed to fetch(): a function on the keys it holds
Headers(s) ==
    IF TruthyString(s.token)
    THEN ("Content-Type" :> <<"application/json">>)
         @@ ("Authorization" :> <<"Bearer ", s.token[1]>>)
    ELSE ("Content-Type" :> <<"application/json">>)

\* the call request() hands to fetch()
Request(op, s) ==
    [op |-> op, method |-> Method(op), endpoint |-> Endpoint(op),
     headers |-> Headers(s)]

\* window.location.pathname.includes("/login"), on the views of the application
PathIncludesLogin(p) == p = "/login"

-----------------------------------------------------------------------------
(* Responses a server can give *)

Statuses == {200, 204, 401, 500}

StatusString(status) == NatToString(status)

StatusText(status) ==
    CASE status = 200 -> "OK"
      [] status = 204 -> "No Content"
      [] status = 401 -> "Unauthorized"
      [] OTHER -> "Internal Server Error"

\* response.ok
Ok(status) == status >= 200 /\ status <= 299

\* the content-type header, absent or present
ContentTypes ==
    {None, Some("application/json"), Some("application/problem+json"),
     Some("text/plain")}

IsJson(contentType) ==
    contentType # None
    /\ contentType[1] \in {"application/json", "application/problem+json"}

\* A body is a JSON object with some of the fields the client reads, the JSON
\* value null, or text that is no JSON.
ObjectBody(detail, message, title, tk, expiresInSeconds) ==
    [kind |-> "object", detail |-> detail, message |-> message, title |-> title,
     token |-> tk, expiresInSeconds |-> expiresInSeconds]

EmptyObject == ObjectBody(None, None, None, None, None)
NullBody == [kind |-> "null"]
\* text that is no JSON
TextBody == [kind |-> "text", text |-> <<"Internal Server Error">>]
\* no content
NoBody == [kind |-> "text", text |-> <<>>]

\* a JSON value that is no string: the list of validation errors some servers
\* send as detail
ValidationErrors == <<"[", "{\"msg\":\"field required\"}", "]">>
JsonObjects == {ValidationErrors}
\* typeof v === "string", for a value v read from a body
IsString(v) == v \notin JsonObjects

ErrorBodies ==
    {ObjectBody(Some(<<"detail text">>), None, None, None, None),
     ObjectBody(Some(<<"detail text">>), Some(<<"message text">>),
                Some(<<"title text">>), None, None),
     ObjectBody(None, Some(<<"message text">>), Some(<<"title text">>), None, None),
     ObjectBody(None, None, Some(<<"title text">>), None, None),
     ObjectBody(Some(ValidationErrors), None, Some(<<"title text">>), None, None),
     EmptyObject, NullBody, TextBody}

LoginBodies ==
    {ObjectBody(None, None, None, Some(tk), e) :
        tk \in Tokens, e \in {None} \cup {Some(x) : x \in Lifetimes}}
    \cup {ObjectBody(None, None, None, Some(""), Some(1)), EmptyObject,
          NullBody, TextBody}

OtherBodies == {EmptyObject, NullBody, TextBody}

\* the bodies a server gives to operation op with a status
Bodies(op, status) ==
    IF status = 204 THEN {NoBody}
    ELSE IF ~Ok(status) THEN ErrorBodies
    ELSE IF op = "login" THEN LoginBodies
    ELSE OtherBodies

\* response.text(): the body as sent
RawText(body) ==
    CASE body.kind = "text" -> body.text
      [] body.kind = "null" -> <<"null">>
      [] OTHER -> <<"{...}">>

-----------------------------------------------------------------------------
(* Errors: an ApiError has a status field, a JavaScript Error has none *)

ApiError(message, status) == [message |-> message, status |-> status]
JsError(name, message) == [name |-> name, message |-> message, isError |-> TRUE]

HasStatus(error) == "status" \in DOMAIN error

\* String.prototype.includes on a message made of parts
Includes(message, part) == \E i \in 1..Len(message) : message[i] = part

SessionExpiredMessage == <<"Your session has expired. Please login again.">>
ConnectMessage ==
    <<"Unable to connect to the server. Please check your internet connection and try again.">>
NetworkMessage ==
    <<"Network error. Please check your internet connection and try again.">>
UnavailableMessage == <<"Service temporarily unavailable. Please try again later.">>
RetryMessage == <<"An error occurred. Please try again.">>
UnexpectedMessage == <<"An unexpected error occurred. Please try again.">>

SyntaxError == JsError("SyntaxError", <<"Unexpected token">>)
TypeError == JsError("TypeError", <<"Cannot read properties of null">>)

\* what fetch() rejects with
FetchFailures ==
    {JsError("TypeError", <<"Failed to fetch">>),
     JsError("TypeError", <<"NetworkError", " when attempting to fetch resource.">>),
     JsError("Error", <<"blocked by ", "CORS", " policy">>),
     JsError("TypeError", <<"Failed to fetch", " (", "CORS", ", ", "NetworkError", ")">>),
     JsError("Error", <<"NetworkError", ": ", "CORS", " request did not succeed">>),
     JsError("AbortError", <<"The user aborted a request.">>),
     [name |-> "string", message |-> <<"thrown value">>, isError |-> FALSE]}

Return(value) == [kind |-> "return", value |-> value]
Throw(error) == [kind |-> "throw", error |-> error]

-----------------------------------------------------------------------------
(* Request Pipeline: what ApiClient.request does with a response *)

TruthyMessage(o) == o # None /\ o[1] # <<>>

\* a message taken from the message field before the detail field
ErrorMessage_MessageFirst(errorBody, status) ==
    IF errorBody.kind = "string" THEN errorBody.text
    ELSE IF TruthyMessage(errorBody.message) THEN errorBody.message[1]
    ELSE IF TruthyMessage(errorBody.detail) THEN errorBody.detail[1]
    ELSE IF TruthyMessage(errorBody.title) THEN errorBody.title[1]
    ELSE <<"HTTP ">> \o StatusString(status) \o <<": ", StatusText(status)>>

\* the message of a failed response whose body was read as errorBody
ErrorMessage(errorBody, status) ==
    IF errorBody.kind = "string" THEN errorBody.text
    ELSE IF TruthyMessage(errorBody.detail) THEN errorBody.detail[1]
    ELSE IF TruthyMessage(errorBody.message) THEN errorBody.message[1]
    ELSE IF TruthyMessage(errorBody.title) THEN errorBody.title[1]
    ELSE <<"HTTP ">> \o StatusString(status) \o <<": ", StatusText(status)>>

\* the try block from reading the body on: returns a value or throws
BodyResult(status, isJson, body) ==
    IF ~Ok(status)
    THEN IF isJson /\ body.kind = "text" THEN Throw(SyntaxError)
         ELSE LET errorBody == IF isJson THEN body
                               ELSE [kind |-> "string", text |-> RawText(body)]
              IN  IF errorBody.kind = "null" THEN Throw(TypeError)
                  ELSE Throw(ApiError(ErrorMessage(errorBody, status), status))
    ELSE IF isJson
         THEN IF body.kind = "text" THEN Throw(SyntaxError) ELSE Return(body)
         ELSE Return(EmptyObject)

\* a catch block that looks for "CORS" first
CatchBlock_CorsFirst(error) ==
    IF HasStatus(error) THEN error
    ELSE IF error.isError
         THEN IF Includes(error.message, "CORS")
              THEN ApiError(UnavailableMessage, 0)
              ELSE IF Includes(error.message, "Failed to fetch")
              THEN ApiError(ConnectMessage, 0)
              ELSE IF Includes(error.message, "NetworkError")
              THEN ApiError(NetworkMessage, 0)
              ELSE ApiError(RetryMessage, 0)
         ELSE ApiError(UnexpectedMessage, 0)

\* the catch block: an error with a status passes, any other becomes status 0
CatchBlock(error) ==
    IF HasStatus(error) THEN error
    ELSE IF error.isError
         THEN IF Includes(error.message, "Failed to fetch")
              THEN ApiError(ConnectMessage, 0)
              ELSE IF Includes(error.message, "NetworkError")
              THEN ApiError(NetworkMessage, 0)
              ELSE IF Includes(error.message, "CORS")
              THEN ApiError(UnavailableMessage, 0)
              ELSE ApiError(RetryMessage, 0)
         ELSE ApiError(UnexpectedMessage, 0)

\* logout without its try/catch: a failed request propagates and skips the
\* clearing
Settle_LogoutPropagates(op, s, result, t) ==
    IF result.kind = "throw"
    THEN [session |-> s, outcome |-> "rejected", error |-> Some(result.error)]
    ELSE CASE op = "login" ->
                IF result.value.kind = "null"
                THEN [session |-> s, outcome |-> "rejected", error |-> Some(TypeError)]
                ELSE IF TruthyString(result.value.token)
                THEN [session |-> setToken(s, result.value.token,
                                           result.value.expiresInSeconds, t),
                      outcome |-> "resolved", error |-> None]
                ELSE [session |-> s, outcome |-> "resolved", error |-> None]
           [] op = "logout" ->
                [session |-> setToken(s, None, None, t),
                 outcome |-> "resolved", error |-> None]
           [] OTHER -> [session |-> s, outcome |-> "resolved", error |-> None]

\* request() settles with result; r is what the public method op makes of it:
\* the session it leaves and how it settles towards its caller
Settle(op, s, result, t) ==
    CASE op = "login" ->
           IF result.kind = "throw"
           THEN [session |-> s, outcome |-> "rejected", error |-> Some(result.error)]
           ELSE IF result.value.kind = "null"
           THEN [session |-> s, outcome |-> "rejected", error |-> Some(TypeError)]
           ELSE IF TruthyString(result.value.token)
           THEN [session |-> setToken(s, result.value.token,
                                      result.value.expiresInSeconds, t),
                 outcome |-> "resolved", error |-> None]
           ELSE [session |-> s, outcome |-> "resolved", error |-> None]
      [] op = "logout" ->
           [session |-> setToken(s, None, None, t),
            outcome |-> "resolved", error |-> None]
      [] OTHER ->
           IF result.kind = "throw"
           THEN [session |-> s, outcome |-> "rejected", error |-> Some(result.error)]
           ELSE [session |-> s, outcome |-> "resolved", error |-> None]

\* a pre-flight check that is never taken
PreflightExpired_Never(s, t) == FALSE

\* the pre-flight check of request()
PreflightExpired(s, t) == TruthyString(s.token) /\ isTokenExpired(s, t)

\* What a step shows to the caller of the operation: the event, the
\* operation, how it settled (pending while it awaits fetch), its error or
\* the value it returned, the error request() threw, the response's status.
Observed(ev, op, outcome, error, value, requestError, status) ==
    [ev |-> ev, op |-> op, outcome |-> outcome, error |-> error, value |-> value,
     requestError |-> requestError, status |-> status]

\* nothing to show: the event loop is idle
Idle == Observed("idle", "-", "-", None, None, None, None)

RequestError(result) == IF result.kind = "throw" THEN Some(result.error) ELSE None

\* the value a resolved operation hands to its caller
Value(op, r, result) ==
    IF r.outcome = "resolved" /\ op # "logout" THEN Some(result.value) ELSE None

-----------------------------------------------------------------------------
(* Actions.  JavaScript runs one handler at a time: a step is a handler    *)
(* from its start to its next await of the network, followed by the        *)
(* continuation of the caller that awaited it (Resume).                    *)

\* useState's initial values in useTasks; filters is set when the page mounts
UseTasksInit(filters) ==
    [mounted |-> TRUE, tasks |-> Some(<<>>),
     pagination |-> [total |-> 0, page |-> 1, size |-> DefaultSize],
     isLoading |-> TRUE, error |-> None, filters |-> filters]

\* no TasksPage has been mounted in this document: useTasks holds nothing
NoHook == [UseTasksInit(None) EXCEPT !.mounted = FALSE]

\* no TasksPage is mounted: no watcher, no warning shown, no interval kept
Unmounted ==
    [mounted |-> FALSE, enabled |-> FALSE, warningThresholdSeconds |-> 0,
     warningShown |-> FALSE, intervalRef |-> None]

Init ==
    /\ token = None
    /\ tokenExpiresAt = None
    /\ localStorage = EmptyStorage
    /\ sessionStorage = [session_expired |-> None]
    /\ now = StartTime
    /\ pathname = "/login"
    /\ nav = None
    /\ inflight = EmptyBag
    /\ last = Idle
    /\ cookie = FALSE
    /\ route = None
    /\ view = "none"
    /\ watcher = Unmounted
    /\ timers = {}
    /\ isAuthenticated = FALSE
    /\ hook = NoHook
    /\ calls = EmptyBag

SetSession(s) ==
    /\ token' = s.token
    /\ tokenExpiresAt' = s.tokenExpiresAt
    /\ localStorage' = s.localStorage

\* the caller's continuation has run
Resume ==
    /\ last # Idle
    /\ last' = Idle
    /\ UNCHANGED <<token, tokenExpiresAt, localStorage, sessionStorage, now, pathname,
                   nav, inflight>>
    /\ UNCHANGED ui

\* Date.now() advances
Tick ==
    /\ last = Idle
    /\ now < MaxTime
    /\ now' = now + TickMs
    /\ UNCHANGED <<token, tokenExpiresAt, localStorage, sessionStorage, pathname,
                   nav, inflight, last>>
    /\ UNCHANGED ui

\* apiClient.setToken(tk, expiresInSeconds) called from outside the class
SetToken(tk, expiresInSeconds) ==
    /\ last = Idle
    /\ SetSession(setToken(Session, tk, expiresInSeconds, now))
    /\ last' = Observed("setToken", "-", "-", None,
                        Some([token |-> tk, expiresInSeconds |-> expiresInSeconds]),
                        None, None)
    /\ UNCHANGED <<sessionStorage, now, pathname, nav, inflight>>
    /\ UNCHANGED ui

\* apiClient.isTokenExpiringSoon(thresholdSeconds) is asked
IsTokenExpiringSoon(thresholdSeconds) ==
    /\ last = Idle
    /\ last' = Observed("isTokenExpiringSoon", "-", "-", None,
                        Some([thresholdSeconds |-> thresholdSeconds,
                              result |-> isTokenExpiringSoon(Session,
                                                             thresholdSeconds, now)]),
                        None, None)
    /\ UNCHANGED <<token, tokenExpiresAt, localStorage, sessionStorage, now, pathname,
                   nav, inflight>>
    /\ UNCHANGED ui

\* a public method op is called while fewer than limit requests are pending:
\* request() runs up to its await of fetch()
CallWithin(op, limit) ==
    /\ last = Idle
    /\ IF PreflightExpired(Session, now)
       THEN LET result == Throw(ApiError(SessionExpiredMessage, 401))
                r == Settle(op, setToken(Session, None, None, now), result, now)
            IN  /\ SetSession(r.session)
                /\ sessionStorage' =
                       [sessionStorage EXCEPT !.session_expired = Some("true")]
                /\ nav' = Some("/login")
                /\ last' = Observed("call", op, r.outcome, r.error, None,
                                    RequestError(result), None)
                /\ UNCHANGED <<now, pathname, inflight>>
       ELSE /\ BagCardinality(inflight) < limit
            /\ inflight' = inflight (+) SetToBag({Request(op, Session)})
            /\ last' = Observed("call", op, "pending", None, None, None, None)
            /\ UNCHANGED <<token, tokenExpiresAt, localStorage, sessionStorage, now,
                           pathname, nav>>
    /\ UNCHANGED ui

Call(op) == CallWithin(op, MaxInFlight)

Login == Call("login")
Logout == Call("logout")
GetTasks == Call("getTasks")
GetTask == Call("getTask")
CreateTask == Call("createTask")
UpdateTask == Call("updateTask")
DeleteTask == Call("deleteTask")

\* a try block without the 204 case
TryBlock_No204(status, contentType, body) ==
    BodyResult(status, IsJson(contentType), body)

\* the try block of request() on a response: returns a value or throws
TryBlock(status, contentType, body) ==
    IF status = 204 THEN Return(EmptyObject)
    ELSE BodyResult(status, IsJson(contentType), body)

\* request() on a response: the try block, then the catch block on what it threw
RequestResult(status, contentType, body) ==
    LET tried == TryBlock(status, contentType, body)
    IN  IF tried.kind = "throw" THEN Throw(CatchBlock(tried.error)) ELSE tried

\* the response is a 401 that request() handles as one
Unauthorized(status) == status # 204 /\ ~Ok(status) /\ status = 401

\* a 401 that redirects from the login view too
RedirectsOn401_AnyView(status, path) == Unauthorized(status)

\* a 401 that sets no flag and redirects nowhere
RedirectsOn401_Never(status, path) == FALSE

\* a 401 makes request() set the flag and leave for the login view
RedirectsOn401(status, path) == Unauthorized(status) /\ ~PathIncludesLogin(path)

\* fetch() of request req resolves with a response: request() runs to its
\* end.  (The body is read in the same step.)
Respond(req, status, contentType, body) ==
    /\ last = Idle
    /\ BagIn(req, inflight)
    /\ body \in Bodies(req.op, status)
    /\ LET op == req.op
           redirect == RedirectsOn401(status, pathname)
           s == IF Unauthorized(status) THEN setToken(Session, None, None, now)
                ELSE Session
           result == RequestResult(status, contentType, body)
           r == Settle(op, s, result, now)
       IN  /\ sessionStorage' =
                  IF redirect
                  THEN [sessionStorage EXCEPT !.session_expired = Some("true")]
                  ELSE sessionStorage
           /\ nav' = IF redirect THEN Some("/login") ELSE nav
           /\ SetSession(r.session)
           /\ inflight' = inflight (-) SetToBag({req})
           /\ last' = Observed("response", op, r.outcome, r.error, Value(op, r, result),
                               RequestError(result), Some(status))
                      @@ [response |-> [status |-> status, isJson |-> IsJson(contentType),
                                        body |-> body]]
    /\ UNCHANGED <<now, pathname>>
    /\ UNCHANGED ui

\* fetch() of request req rejects
FetchRejects(req, failure) ==
    /\ last = Idle
    /\ BagIn(req, inflight)
    /\ LET op == req.op
           result == Throw(CatchBlock(failure))
           r == Settle(op, Session, result, now)
       IN  /\ SetSession(r.session)
           /\ inflight' = inflight (-) SetToBag({req})
           /\ last' = Observed("failure", op, r.outcome, r.error, None,
                               RequestError(result), None)
                      @@ [failure |-> failure]
    /\ UNCHANGED <<sessionStorage, now, pathname, nav>>
    /\ UNCHANGED ui

\* a document is loaded at path p: a new ApiClient is constructed from
\* localStorage; what the old document awaited, its components and its
\* timers are gone
LoadPage(p) ==
    /\ last = Idle
    /\ SetSession(Construct(localStorage))
    /\ pathname' = p
    /\ nav' = None
    /\ inflight' = EmptyBag
    /\ route' = None
    /\ view' = "none"
    /\ watcher' = Unmounted
    /\ timers' = {}
    /\ isAuthenticated' = FALSE
    /\ hook' = NoHook
    /\ calls' = EmptyBag
    /\ UNCHANGED <<sessionStorage, now, last, cookie>>

\* the navigation started by window.location.href = "/login" completes
Navigate == nav # None /\ LoadPage(nav[1])

\* the user opens or reloads a view
Open == \E p \in Paths : LoadPage(p)

\* router.replace(p): the view changes inside the running document
RouterReplace ==
    \E p \in Paths :
        /\ last = Idle
        /\ pathname' = p
        /\ UNCHANGED <<token, tokenExpiresAt, localStorage, sessionStorage, now, nav,
                       inflight, last>>
        /\ UNCHANGED ui

Next ==
    \/ Resume
    \/ Tick
    \/ \E tk \in {None} \cup {Some(x) : x \in Tokens},
          e \in {None} \cup {Some(x) : x \in Lifetimes} : SetToken(tk, e)
    \/ \E thresholdSeconds \in Thresholds : IsTokenExpiringSoon(thresholdSeconds)
    \/ Login
    \/ Logout
    \/ GetTasks
    \/ GetTask
    \/ CreateTask
    \/ UpdateTask
    \/ DeleteTask
    \/ \E req \in BagToSet(inflight), status \in Statuses,
          contentType \in ContentTypes :
          \E body \in Bodies(req.op, status) : Respond(req, status, contentType, body)
    \/ \E req \in BagToSet(inflight), failure \in FetchFailures :
          FetchRejects(req, failure)
    \/ Navigate
    \/ Open
    \/ RouterReplace

Spec == Init /\ [][Next]_vars

-----------------------------------------------------------------------------
(* Route gate: the middleware in front of /login and /tasks                *)

Redirect(p) == [kind |-> "redirect", to |-> p]
NextResponse == [kind |-> "next"]

\* pathname.startsWith("/tasks"), on the views of the application
StartsWithTasks(p) == p = "/tasks"

\* a gate that sends nobody away from the login view
middleware_TasksOnly(p, hasCookie) ==
    IF StartsWithTasks(p) /\ ~hasCookie THEN Redirect("/login")
    ELSE NextResponse

\* middleware(request): hasCookie is the truth of the auth_token cookie's value
middleware(p, hasCookie) ==
    IF StartsWithTasks(p) /\ ~hasCookie THEN Redirect("/login")
    ELSE IF p = "/login" /\ hasCookie THEN Redirect("/tasks")
    ELSE NextResponse

\* the path served for a request of path p: redirects are followed
RECURSIVE Served(_, _)
Served(p, hasCookie) ==
    LET response == middleware(p, hasCookie)
    IN  IF response.kind = "redirect" THEN Served(response.to, hasCookie) ELSE p

\* the page of a path
PageOf(p) == IF p = "/login" THEN "login" ELSE "tasks"

-----------------------------------------------------------------------------
(* Expiration Watcher: useTokenExpiration                                   *)

ResetMarginSeconds == 60
SecondsPerMinute == 60

\* warningThresholdSeconds given to the hook
WatcherThresholds == {0, 1}
\* a lifetime beyond every threshold plus the reset margin
LongLifetime == ResetMarginSeconds + 2
WatcherLifetimes == Lifetimes \cup {LongLifetime}

\* Math.ceil(n / d) for n >= 0
Ceil(n, d) == (n + d - 1) \div d

Toast(title, description) == [title |-> title, description |-> description]

ExpiringSoonToast(minutes) ==
    Toast("Session Expiring Soon",
          <<"Your session will expire in ">> \o NatToString(minutes)
          \o <<" minute", IF minutes > 1 THEN "s" ELSE "", ". Please save your work.">>)

SessionExpiredToast ==
    Toast("Session Expired", <<"Your session has expired. Please sign in again.">>)

\* a check that takes a token for expired only after its expiry instant
checkTokenExpiration_Late(s, warningShown, warningThresholdSeconds, t) ==
    IF ~TruthyString(getToken(s)) \/ ~TruthyNumber(getTokenExpiresAt(s))
    THEN [session |-> s, warningShown |-> FALSE, expired |-> FALSE, toast |-> None]
    ELSE LET timeUntilExpiry == getTokenExpiresAt(s)[1] - t
             timeUntilExpirySeconds == timeUntilExpiry \div MsPerSecond
             warns == /\ timeUntilExpirySeconds <= warningThresholdSeconds
                      /\ ~warningShown
             minutes == Ceil(timeUntilExpirySeconds, SecondsPerMinute)
         IN  IF timeUntilExpiry < 0
             THEN [session |-> setToken(s, None, None, t),
                   warningShown |-> warningShown, expired |-> TRUE, toast |-> None]
             ELSE [session |-> s,
                   warningShown |->
                       IF timeUntilExpirySeconds
                              > warningThresholdSeconds + ResetMarginSeconds
                       THEN FALSE
                       ELSE warns \/ warningShown,
                   expired |-> FALSE,
                   toast |-> IF warns THEN Some(ExpiringSoonToast(minutes)) ELSE None]

\* a check that re-arms the warning as soon as the threshold is left behind
checkTokenExpiration_NoMargin(s, warningShown, warningThresholdSeconds, t) ==
    IF ~TruthyString(getToken(s)) \/ ~TruthyNumber(getTokenExpiresAt(s))
    THEN [session |-> s, warningShown |-> FALSE, expired |-> FALSE, toast |-> None]
    ELSE LET timeUntilExpiry == getTokenExpiresAt(s)[1] - t
             timeUntilExpirySeconds == timeUntilExpiry \div MsPerSecond
             warns == /\ timeUntilExpirySeconds <= warningThresholdSeconds
                      /\ ~warningShown
             minutes == Ceil(timeUntilExpirySeconds, SecondsPerMinute)
         IN  IF timeUntilExpiry <= 0
             THEN [session |-> setToken(s, None, None, t),
                   warningShown |-> warningShown, expired |-> TRUE, toast |-> None]
             ELSE [session |-> s,
                   warningShown |->
                       IF timeUntilExpirySeconds > warningThresholdSeconds
                       THEN FALSE
                       ELSE warns \/ warningShown,
                   expired |-> FALSE,
                   toast |-> IF warns THEN Some(ExpiringSoonToast(minutes)) ELSE None]

\* a check that does not remember the warning it raised
checkTokenExpiration_Forgets(s, warningShown, warningThresholdSeconds, t) ==
    IF ~TruthyString(getToken(s)) \/ ~TruthyNumber(getTokenExpiresAt(s))
    THEN [session |-> s, warningShown |-> FALSE, expired |-> FALSE, toast |-> None]
    ELSE LET timeUntilExpiry == getTokenExpiresAt(s)[1] - t
             timeUntilExpirySeconds == timeUntilExpiry \div MsPerSecond
             warns == /\ timeUntilExpirySeconds <= warningThresholdSeconds
                      /\ ~warningShown
             minutes == Ceil(timeUntilExpirySeconds, SecondsPerMinute)
         IN  IF timeUntilExpiry <= 0
             THEN [session |-> setToken(s, None, None, t),
                   warningShown |-> warningShown, expired |-> TRUE, toast |-> None]
             ELSE [session |-> s,
                   warningShown |->
                       IF timeUntilExpirySeconds
                              > warningThresholdSeconds + ResetMarginSeconds
                       THEN FALSE
                       ELSE warningShown,
                   expired |-> FALSE,
                   toast |-> IF warns THEN Some(ExpiringSoonToast(minutes)) ELSE None]

\* checkTokenExpiration() at time t: the session and warningShownRef.current
\* it leaves, whether it ended the session, and the toast it raised
checkTokenExpiration(s, warningShown, warningThresholdSeconds, t) ==
    IF ~TruthyString(getToken(s)) \/ ~TruthyNumber(getTokenExpiresAt(s))
    THEN [session |-> s, warningShown |-> FALSE, expired |-> FALSE, toast |-> None]
    ELSE LET timeUntilExpiry == getTokenExpiresAt(s)[1] - t
             timeUntilExpirySeconds == timeUntilExpiry \div MsPerSecond
             warns == /\ timeUntilExpirySeconds <= warningThresholdSeconds
                      /\ ~warningShown
             minutes == Ceil(timeUntilExpirySeconds, SecondsPerMinute)
         IN  IF timeUntilExpiry <= 0
             THEN [session |-> setToken(s, None, None, t),
                   warningShown |-> warningShown, expired |-> TRUE, toast |-> None]
             ELSE [session |-> s,
                   warningShown |->
                       IF timeUntilExpirySeconds
                              > warningThresholdSeconds + ResetMarginSeconds
                       THEN FALSE
                       ELSE warns \/ warningShown,
                   expired |-> FALSE,
                   toast |-> IF warns THEN Some(ExpiringSoonToast(minutes)) ELSE None]

\* an interval: its id and the threshold its callback closed over
Timer(id, warningThresholdSeconds) ==
    [id |-> id, warningThresholdSeconds |-> warningThresholdSeconds]

TimerIds(ts) == {tm.id : tm \in ts}

\* setInterval returns an id that no interval and no reference holds
NewTimerId(ts, ref) ==
    CHOOSE id \in 1..(Cardinality(ts) + 2) : id \notin TimerIds(ts) /\ ref # Some(id)

\* a cleanup that clears nothing
Cleanup_KeepsInterval(w, ts) == ts

\* the effect's cleanup: registered only by a run that was enabled
Cleanup(w, ts) ==
    IF w.mounted /\ w.enabled /\ TruthyNumber(w.intervalRef)
    THEN {tm \in ts : tm.id # w.intervalRef[1]}
    ELSE ts

\* one check: the store, the flag and the router as checkTokenExpiration
\* leaves them; shown is warningShownRef.current before the check
RunCheck(shown, warningThresholdSeconds, r) ==
    /\ r = checkTokenExpiration(Session, shown, warningThresholdSeconds, now)
    /\ SetSession(r.session)
    /\ sessionStorage' =
           IF r.expired
           THEN [sessionStorage EXCEPT !.session_expired = Some("true")]
           ELSE sessionStorage
    /\ route' = IF r.expired THEN Some("/login") ELSE route

\* what a step of the pages shows: the check it ran, the toast it raised
ObservedPage(ev, check, toast) ==
    Observed(ev, "-", "-", None, None, None, None)
    @@ [check |-> check, toast |-> toast]

\* what a step that ran checkTokenExpiration shows: also warningShownRef.current
\* as the check found it and the threshold the callback closed over
ObservedCheck(ev, r, shown, warningThresholdSeconds) ==
    ObservedPage(ev, Some(r), r.toast)
    @@ [shown |-> shown, warningThresholdSeconds |-> warningThresholdSeconds]

\* the effect of useTokenExpiration runs with the options given: nothing when
\* not enabled, else a check at once and an interval for the next ones
RunEffect(ev, shown, enabled, warningThresholdSeconds, ts) ==
    IF enabled
    THEN \E r \in {checkTokenExpiration(Session, shown, warningThresholdSeconds, now)} :
            LET id == NewTimerId(ts, watcher.intervalRef)
            IN  /\ RunCheck(shown, warningThresholdSeconds, r)
                /\ timers' = ts \cup {Timer(id, warningThresholdSeconds)}
                /\ watcher' = [mounted |-> TRUE, enabled |-> TRUE,
                               warningThresholdSeconds |-> warningThresholdSeconds,
                               warningShown |-> r.warningShown,
                               intervalRef |-> Some(id)]
                /\ last' = ObservedCheck(ev, r, shown, warningThresholdSeconds)
    ELSE /\ timers' = ts
         /\ watcher' = [mounted |-> TRUE, enabled |-> FALSE,
                        warningThresholdSeconds |-> warningThresholdSeconds,
                        warningShown |-> shown,
                        intervalRef |-> watcher.intervalRef]
         /\ last' = ObservedPage(ev, None, None)
         /\ UNCHANGED <<token, tokenExpiresAt, localStorage, sessionStorage, route>>

\* TasksPage mounts: useAuth of its header reads the token, then the effect
\* of useTokenExpiration runs for the first time
MountTasksPage(enabled, warningThresholdSeconds) ==
    /\ last = Idle
    /\ view = "none"
    /\ PageOf(pathname) = "tasks"
    /\ view' = "tasks"
    /\ isAuthenticated' = TruthyString(getToken(Session))
    /\ RunEffect("mount", FALSE, enabled, warningThresholdSeconds, timers)
    /\ UNCHANGED <<now, pathname, nav, inflight, cookie, hook, calls>>

\* the page renders the hook with other options: the cleanup of the last run,
\* then the effect again
SetOptions(enabled, warningThresholdSeconds) ==
    /\ last = Idle
    /\ watcher.mounted
    /\ <<enabled, warningThresholdSeconds>>
           # <<watcher.enabled, watcher.warningThresholdSeconds>>
    /\ RunEffect("options", watcher.warningShown, enabled, warningThresholdSeconds,
                 Cleanup(watcher, timers))
    /\ UNCHANGED <<now, pathname, nav, inflight, cookie, view, isAuthenticated, hook,
                   calls>>

\* the interval tm fires: its callback runs
CheckTokenExpiration(tm) ==
    /\ last = Idle
    /\ tm \in timers
    /\ \E r \in {checkTokenExpiration(Session, watcher.warningShown,
                                      tm.warningThresholdSeconds, now)} :
           /\ RunCheck(watcher.warningShown, tm.warningThresholdSeconds, r)
           /\ watcher' = [watcher EXCEPT !.warningShown = r.warningShown]
           /\ last' = ObservedCheck("check", r, watcher.warningShown,
                                    tm.warningThresholdSeconds)
    /\ UNCHANGED <<now, pathname, nav, inflight, cookie, view, timers, isAuthenticated,
                   hook, calls>>

Check == \E tm \in timers : CheckTokenExpiration(tm)

-----------------------------------------------------------------------------
(* Login view: the effect of LoginForm                                      *)

\* a login view that shows the warning and leaves the flag
ConsumeFlag_KeepsFlag(ss) ==
    [sessionStorage |-> ss,
     toast |-> IF ss.session_expired = Some("true") THEN Some(SessionExpiredToast)
               ELSE None]

\* the flag is read; when it is "true" the warning is shown and the flag removed
ConsumeFlag(ss) ==
    IF ss.session_expired = Some("true")
    THEN [sessionStorage |-> [ss EXCEPT !.session_expired = None],
          toast |-> Some(SessionExpiredToast)]
    ELSE [sessionStorage |-> ss, toast |-> None]

MountLoginPage ==
    /\ last = Idle
    /\ view = "none"
    /\ PageOf(pathname) = "login"
    /\ view' = "login"
    /\ isAuthenticated' = TruthyString(getToken(Session))
    /\ LET r == ConsumeFlag(sessionStorage)
       IN  /\ sessionStorage' = r.sessionStorage
           /\ last' = ObservedPage("mount", None, r.toast)
    /\ UNCHANGED <<token, tokenExpiresAt, localStorage, now, pathname, nav, inflight,
                   cookie, route, watcher, timers, hook, calls>>

-----------------------------------------------------------------------------
(* Navigation through the gate                                              *)

\* the page at the served path replaces the mounted one: the components of
\* the old page unmount and their cleanups run
Unmount(p) ==
    IF view \in {"none", PageOf(p)}
    THEN UNCHANGED <<view, watcher, timers, isAuthenticated, hook>>
    ELSE /\ view' = "none"
         /\ timers' = Cleanup(watcher, timers)
         /\ watcher' = Unmounted
         /\ isAuthenticated' = FALSE
         /\ hook' = [hook EXCEPT !.mounted = FALSE]

\* the navigation started by router.replace completes inside the document
Routed ==
    /\ last = Idle
    /\ route # None
    /\ LET served == Served(route[1], cookie)
       IN  /\ pathname' = served
           /\ Unmount(served)
    /\ route' = None
    /\ last' = Observed("route", "-", "-", None, None, None, None)
                @@ [requested |-> route[1], hasCookie |-> cookie]
    /\ UNCHANGED <<token, tokenExpiresAt, localStorage, sessionStorage, now, nav,
                   inflight, cookie, calls>>

\* the user asks for the document at path p
Visit(p) ==
    /\ last = Idle
    /\ nav = None
    /\ nav' = Some(p)
    /\ UNCHANGED <<token, tokenExpiresAt, localStorage, sessionStorage, now, pathname,
                   inflight, last>>
    /\ UNCHANGED ui

\* the document asked for is loaded, from the path the gate serves
Load == nav # None /\ LoadPage(Served(nav[1], cookie))

\* the backend sets the auth_token cookie, or the cookie ends
SetCookie ==
    /\ last = Idle
    /\ cookie' = ~cookie
    /\ UNCHANGED <<token, tokenExpiresAt, localStorage, sessionStorage, now, pathname,
                   nav, inflight, last, route, view, watcher, timers, isAuthenticated,
                   hook, calls>>

\* setToken called by the page's code while the watcher may run, with the
\* lifetimes the watcher tells apart
SetWatchedToken ==
    \E tk \in {None} \cup {Some(x) : x \in Tokens},
       e \in {None} \cup {Some(x) : x \in WatcherLifetimes} : SetToken(tk, e)

PagesNext ==
    \/ Resume
    \/ Tick
    \/ SetWatchedToken
    \/ \E enabled \in BOOLEAN, th \in WatcherThresholds : MountTasksPage(enabled, th)
    \/ \E enabled \in BOOLEAN, th \in WatcherThresholds : SetOptions(enabled, th)
    \/ Check
    \/ MountLoginPage
    \/ Routed
    \/ \E p \in Paths : Visit(p)
    \/ Load
    \/ SetCookie

\* setInterval runs the callback again and again while the interval is set,
\* and a handler that has run lets its caller continue
PagesSpec ==
    Init /\ [][PagesNext]_vars /\ SF_vars(Check) /\ WF_vars(Resume)

\* the page of the served path is mounted once its document has come
MountPage ==
    \/ MountLoginPage
    \/ \E enabled \in BOOLEAN, th \in WatcherThresholds : MountTasksPage(enabled, th)

\* besides, a navigation that was started completes and the page it leads to
\* is mounted, whatever else happens meanwhile
GateSpec ==
    /\ Init /\ [][PagesNext]_vars
    /\ SF_vars(Check) /\ WF_vars(Resume)
    /\ SF_vars(Routed) /\ SF_vars(Load) /\ SF_vars(MountPage)

-----------------------------------------------------------------------------
(* useAuth: login of the login view, logout of the tasks view's header      *)

\* the page whose component calls the operation through useAuth
CallerPage(op) == IF op = "login" THEN "login" ELSE "tasks"

LoginFailedMessage == <<"Login failed">>

\* a login that goes on to /tasks whether or not apiClient.login() resolved
useAuth_LoginAlwaysProceeds(op, outcome, error) ==
    IF op = "login"
    THEN [isAuthenticated |-> Some(TRUE), replace |-> Some("/tasks"),
          result |-> [success |-> outcome = "resolved",
                      error |-> IF outcome = "resolved" THEN None
                                ELSE IF TruthyMessage(Some(error[1].message))
                                THEN Some(error[1].message)
                                ELSE Some(LoginFailedMessage)]]
    ELSE [isAuthenticated |-> Some(FALSE), replace |-> Some("/login"),
          result |-> [success |-> TRUE, error |-> None]]

\* what useAuth's login / logout do once apiClient's operation has settled
\* with outcome: the state they set (None: left as it is), the path they
\* hand to router.replace (None: no navigation), the value they resolve with
useAuth(op, outcome, error) ==
    IF op = "login"
    THEN IF outcome = "resolved"
         THEN [isAuthenticated |-> Some(TRUE), replace |-> Some("/tasks"),
               result |-> [success |-> TRUE, error |-> None]]
         ELSE [isAuthenticated |-> None, replace |-> None,
               result |-> [success |-> FALSE,
                           error |-> IF TruthyMessage(Some(error[1].message))
                                     THEN Some(error[1].message)
                                     ELSE Some(LoginFailedMessage)]]
    ELSE [isAuthenticated |-> Some(FALSE), replace |-> Some("/login"),
          result |-> [success |-> TRUE, error |-> None]]

\* apiClient.login() or logout() has settled and useAuth has not gone on yet
UseAuthPending ==
    /\ last.ev \in {"call", "response", "failure"}
    /\ last.op \in {"login", "logout"}
    /\ last.outcome \in {"resolved", "rejected"}

\* LoginForm submits: useAuth.login awaits apiClient.login
UseAuthLogin == view = "login" /\ Login

\* the header's button: useAuth.logout awaits apiClient.logout
UseAuthLogout == view = "tasks" /\ Logout

\* useAuth goes on after its await; setIsAuthenticated reaches the hook only
\* while the page that called is mounted
UseAuthSettled ==
    /\ UseAuthPending
    /\ LET r == useAuth(last.op, last.outcome, last.error)
       IN  /\ isAuthenticated' =
                  IF r.isAuthenticated # None /\ view = CallerPage(last.op)
                  THEN r.isAuthenticated[1]
                  ELSE isAuthenticated
           /\ route' = IF r.replace # None THEN r.replace ELSE route
           /\ last' = Observed("useAuth", last.op, "resolved", None, Some(r.result),
                               None, None)
                      @@ [settled |-> last.outcome, replace |-> r.replace]
    /\ UNCHANGED <<token, tokenExpiresAt, localStorage, sessionStorage, now, pathname,
                   nav, inflight, cookie, view, watcher, timers, hook, calls>>

\* the continuation of any other caller
ResumeOther == ~UseAuthPending /\ Resume

AuthNext ==
    \/ ResumeOther
    \/ Tick
    \/ UseAuthLogin
    \/ UseAuthLogout
    \/ \E req \in BagToSet(inflight), status \in Statuses,
          contentType \in ContentTypes :
          \E body \in Bodies(req.op, status) : Respond(req, status, contentType, body)
    \/ \E req \in BagToSet(inflight), failure \in FetchFailures :
          FetchRejects(req, failure)
    \/ UseAuthSettled
    \/ MountLoginPage
    \/ \E th \in WatcherThresholds : MountTasksPage(TRUE, th)
    \/ Check
    \/ Routed
    \/ \E p \in Paths : Visit(p)
    \/ Load
    \/ SetCookie

AuthSpec == Init /\ [][AuthNext]_vars

-----------------------------------------------------------------------------
(* useTasks: the task list of TasksPage.  A call of apiClient made by the   *)
(* hook runs request() inside the hook's own step, so that what the hook    *)
(* does before and after its await belongs to the step that reaches it.     *)
(* The page is followed from a document without a stored token (the         *)
(* backend's cookie carries the session), with every answer a server or     *)
(* the network can give to a call.                                          *)

MutationOps == {"createTask", "updateTask", "deleteTask"}

\* TaskFilters: page, size and the search text q (absent or null: None)
Filters(page, q) == [page |-> page, size |-> DefaultSize, q |-> q]

\* the filters TasksPage gives to useTasks
InitialFilters == Filters(1, None)

\* what handleSearchChange gives to updateFilters: a search text, or none
FilterUpdates == {[q |-> Some("x"), page |-> 1], [q |-> None, page |-> 1]}

\* ({ ...prev, ...newFilters })
updateFilters(prev, newFilters) ==
    [k \in DOMAIN prev \cup DOMAIN newFilters |->
        IF k \in DOMAIN newFilters THEN newFilters[k] ELSE prev[k]]

\* the page of tasks a server answers a list request for filters f with
PageBody(f) ==
    [kind |-> "object", items |-> Some(<<[title |-> "task", q |-> f.q]>>),
     total |-> Some(1), page |-> Some(f.page), size |-> Some(f.size)]

\* value.name of a JSON object: undefined when the object has no such field
Field(value, name) == IF name \in DOMAIN value THEN value[name] ELSE None

\* a || d for a number a
OrNumber(a, d) == IF TruthyNumber(a) THEN a[1] ELSE d

\* error.message || default
MessageOr(error, default) == IF error.message # <<>> THEN error.message ELSE default

FetchFailedMessage == <<"Failed to fetch tasks">>

MutationFailedMessage(op) ==
    CASE op = "createTask" -> <<"Failed to create task">>
      [] op = "updateTask" -> <<"Failed to update task">>
      [] OTHER -> <<"Failed to delete task">>

\* the bodies a server gives to a call of the hook
CallBodies(c, status) ==
    IF status = 204 THEN {NoBody}
    ELSE IF ~Ok(status)
    THEN {ObjectBody(Some(<<"detail text">>), None, None, None, None), NoBody}
    ELSE IF c.op = "getTasks" THEN {PageBody(c.filters), EmptyObject, NullBody}
    ELSE OtherBodies

\* what request() reads and writes outside the session store
World == [session |-> Session, sessionStorage |-> sessionStorage, nav |-> nav]

SetWorld(w) ==
    /\ SetSession(w.session)
    /\ sessionStorage' = w.sessionStorage
    /\ nav' = w.nav

\* the session is cleared, the flag set and the redirect to /login started
EndSession(w, t) ==
    [session |-> setToken(w.session, None, None, t),
     sessionStorage |-> [w.sessionStorage EXCEPT !.session_expired = Some("true")],
     nav |-> Some("/login")]

\* request() up to its await of fetch(): the request it hands to fetch(), or
\* the error it throws when the pre-flight check ends the session
Requested(w, op, t) ==
    IF PreflightExpired(w.session, t)
    THEN [world |-> EndSession(w, t), request |-> None,
          result |-> Some(Throw(ApiError(SessionExpiredMessage, 401)))]
    ELSE [world |-> w, request |-> Some(Request(op, w.session)), result |-> None]

\* request() from the response of fetch() on, in the view at path
Responded(w, status, contentType, body, path, t) ==
    [world |-> IF RedirectsOn401(status, path) THEN EndSession(w, t)
               ELSE IF Unauthorized(status)
               THEN [w EXCEPT !.session = setToken(w.session, None, None, t)]
               ELSE w,
     result |-> RequestResult(status, contentType, body)]

\* a call the hook awaits: the operation, the filters of the render whose
\* callback made it and the mutation that awaits it (a re-fetch)
HookCall(op, filters, awaitedBy) ==
    [op |-> op, filters |-> filters, awaitedBy |-> awaitedBy]

\* fetchTasks from the settling of apiClient.getTasks(filters) on: try, catch
\* and finally
fetchTasksSettled(h, filters, outcome, value, error) ==
    LET thrown == IF outcome = "rejected" THEN error
                  ELSE IF value[1].kind = "null" THEN Some(TypeError)
                  ELSE None
    IN  IF thrown = None
        THEN [h EXCEPT !.tasks = Field(value[1], "items"),
                       !.pagination =
                           [total |-> OrNumber(Field(value[1], "total"), 0),
                            page |-> OrNumber(Field(value[1], "page"),
                                              OrNumber(Some(filters.page), 1)),
                            size |-> OrNumber(Field(value[1], "size"),
                                              OrNumber(Some(filters.size), DefaultSize))],
                       !.isLoading = FALSE]
        ELSE [h EXCEPT !.error = Some(MessageOr(thrown[1], FetchFailedMessage)),
                       !.isLoading = FALSE]

\* fetchTasks() of a render with the filters given, up to its await: the
\* state it sets, the world request() leaves, the call it awaits (None when
\* the pre-flight check made getTasks reject at once)
fetchTasks(h, w, filters, awaitedBy, t) ==
    LET started == [h EXCEPT !.isLoading = TRUE, !.error = None]
        rq == Requested(w, "getTasks", t)
    IN  IF rq.request = None
        THEN LET r == Settle("getTasks", rq.world.session, rq.result[1], t)
             IN  [hook |-> fetchTasksSettled(started, filters, r.outcome, None, r.error),
                  world |-> rq.world, call |-> None]
        ELSE [hook |-> started, world |-> rq.world,
              call |-> Some(HookCall("getTasks", filters, awaitedBy))]

\* a mutation that re-fetches the list whether or not its call succeeded
mutationSettled_AlwaysRefetches(op, outcome, error) ==
    IF outcome = "resolved"
    THEN [fetchTasks |-> TRUE, result |-> [success |-> TRUE, error |-> None]]
    ELSE [fetchTasks |-> TRUE,
          result |-> [success |-> FALSE,
                      error |-> Some(MessageOr(error[1], MutationFailedMessage(op)))]]

\* createTask / updateTask / deleteTask once apiClient's call has settled:
\* whether fetchTasks() is awaited next, and the value returned in the end
mutationSettled(op, outcome, error) ==
    IF outcome = "resolved"
    THEN [fetchTasks |-> TRUE, result |-> [success |-> TRUE, error |-> None]]
    ELSE [fetchTasks |-> FALSE,
          result |-> [success |-> FALSE,
                      error |-> Some(MessageOr(error[1], MutationFailedMessage(op)))]]

\* the hook goes on after its await of call c, which request() settled with
\* result in world w: the state and the world it leaves, the call it awaits
\* next, how often it called apiClient.getTasks, the value a mutation
\* returned, and the error apiClient rejected with
Continued(h, w, c, result, t) ==
    LET r == Settle(c.op, w.session, result, t)
        value == IF result.kind = "return" THEN Some(result.value) ELSE None
    IN  IF c.op = "getTasks"
        THEN [hook |-> fetchTasksSettled(h, c.filters, r.outcome, value, r.error),
              world |-> w, call |-> None, getTasks |-> 0, error |-> r.error,
              returned |-> IF c.awaitedBy = None THEN None
                           ELSE Some(mutationSettled(c.awaitedBy[1], "resolved",
                                                     None).result)]
        ELSE LET m == mutationSettled(c.op, r.outcome, r.error)
                 f == fetchTasks(h, w, c.filters, Some(c.op), t)
             IN  IF ~m.fetchTasks
                 THEN [hook |-> h, world |-> w, call |-> None, getTasks |-> 0,
                       error |-> r.error, returned |-> Some(m.result)]
                 ELSE [hook |-> f.hook, world |-> f.world, call |-> f.call,
                       getTasks |-> 1, error |-> r.error,
                       returned |-> IF f.call = None THEN Some(m.result) ELSE None]

\* what a step of the hook shows: the event, the call that settled in it,
\* how and with what error, the calls of apiClient.getTasks the step made,
\* the value a mutation returned
ObservedTasks(ev, op, settled, outcome, error, getTasks, returned) ==
    Observed(ev, op, outcome, error, None, None, None)
    @@ [settled |-> settled, getTasks |-> getTasks, returned |-> returned]

\* the calls of cs that belong to a mutation: its own call, or its re-fetch
Mutations(cs) ==
    [c \in {x \in BagToSet(cs) : x.op # "getTasks" \/ x.awaitedBy # None} |-> cs[c]]

\* the hook awaits call oc (None: no call) from now on
Awaits(cs, oc) == calls' = IF oc = None THEN cs ELSE cs (+) SetToBag({oc[1]})

\* the effect of useTasks runs for the first time, after the effect of
\* useTokenExpiration, when TasksPage has mounted
MountUseTasks ==
    /\ last.ev = "mount"
    /\ view = "tasks"
    /\ ~hook.mounted
    /\ LET f == fetchTasks(UseTasksInit(InitialFilters), World, InitialFilters, None,
                           now)
       IN  /\ hook' = f.hook
           /\ SetWorld(f.world)
           /\ Awaits(calls, f.call)
           /\ last' = ObservedTasks("effect", "getTasks", None,
                                    IF f.call = None THEN "rejected" ELSE "pending",
                                    None, 1, None)
    /\ UNCHANGED <<now, pathname, inflight, cookie, route, view, watcher, timers,
                   isAuthenticated>>

\* updateFilters(newFilters): the next render has new filters and a new
\* fetchTasks, so the effect runs again
UpdateFilters(newFilters) ==
    /\ last = Idle
    /\ hook.mounted
    /\ BagCardinality(calls) < MaxCalls
    /\ LET filters == updateFilters(hook.filters, newFilters)
           f == fetchTasks([hook EXCEPT !.filters = filters], World, filters, None, now)
       IN  /\ hook' = f.hook
           /\ SetWorld(f.world)
           /\ Awaits(calls, f.call)
           /\ last' = ObservedTasks("updateFilters", "getTasks", None,
                                    IF f.call = None THEN "rejected" ELSE "pending",
                                    None, 1, None)
    /\ UNCHANGED <<now, pathname, inflight, cookie, route, view, watcher, timers,
                   isAuthenticated>>

\* createTask / updateTask / deleteTask of the hook is called: it awaits
\* apiClient's call, or goes on at once when the pre-flight check rejects it
Mutate(op) ==
    /\ last = Idle
    /\ hook.mounted
    /\ BagCardinality(calls) < MaxCalls
    /\ BagCardinality(Mutations(calls)) < MaxMutations
    /\ LET rq == Requested(World, op, now)
       IN  IF rq.request = None
           THEN LET c == HookCall(op, hook.filters, None)
                    r == Continued(hook, rq.world, c, rq.result[1], now)
                IN  /\ hook' = r.hook
                    /\ SetWorld(r.world)
                    /\ Awaits(calls, r.call)
                    /\ last' = ObservedTasks("mutate", op, Some(c), "rejected",
                                             r.error, r.getTasks, r.returned)
           ELSE /\ hook' = hook
                /\ SetWorld(rq.world)
                /\ Awaits(calls, Some(HookCall(op, hook.filters, None)))
                /\ last' = ObservedTasks("mutate", op, None, "pending", None, 0, None)
    /\ UNCHANGED <<now, pathname, inflight, cookie, route, view, watcher, timers,
                   isAuthenticated>>

\* request() has settled call c with result in world w: the hook goes on
CallSettles(ev, c, w, result) ==
    /\ last = Idle
    /\ BagIn(c, calls)
    /\ LET r == Continued(hook, w, c, result, now)
       IN  /\ hook' = r.hook
           /\ SetWorld(r.world)
           /\ Awaits(calls (-) SetToBag({c}), r.call)
           /\ last' = ObservedTasks(ev, c.op, Some(c),
                                    IF result.kind = "throw" THEN "rejected"
                                    ELSE "resolved",
                                    r.error, r.getTasks, r.returned)
    /\ UNCHANGED <<now, pathname, inflight, cookie, route, view, watcher, timers,
                   isAuthenticated>>

\* fetch() of call c resolves with a response
CallResponds(c, status, contentType, body) ==
    LET rs == Responded(World, status, contentType, body, pathname, now)
    IN  CallSettles("response", c, rs.world, rs.result)

\* fetch() of call c rejects
CallRejects(c, failure) == CallSettles("failure", c, World, Throw(CatchBlock(failure)))

\* the continuation of a caller, once the effects of a mounted page have run
ResumeTasks == ~(last.ev = "mount" /\ view = "tasks" /\ ~hook.mounted) /\ Resume

\* what fetch() rejects with, as far as the hook tells it apart
CallFailures == {JsError("TypeError", <<"Failed to fetch">>)}

TasksNext ==
    \/ ResumeTasks
    \/ MountTasksPage(TRUE, 0)
    \/ MountUseTasks
    \/ \E newFilters \in FilterUpdates : UpdateFilters(newFilters)
    \/ \E op \in MutationOps : Mutate(op)
    \/ \E c \in BagToSet(calls), status \in Statuses, contentType \in ContentTypes :
          \E body \in CallBodies(c, status) : CallResponds(c, status, contentType, body)
    \/ \E c \in BagToSet(calls), failure \in CallFailures : CallRejects(c, failure)
    \/ Navigate
    \/ Open

TasksSpec == Init /\ [][TasksNext]_vars

-----------------------------------------------------------------------------
(* A login racing a request: the document stays (the views change through   *)
(* the router), so a request of the tasks view can still be pending when    *)
(* the login view's login is sent and answered                              *)

RaceLogin == CallWithin("login", MaxRacing)
RaceGetTasks == CallWithin("getTasks", MaxRacing)

RaceNext ==
    \/ Resume
    \/ Tick
    \/ RaceLogin
    \/ RaceGetTasks
    \/ \E req \in BagToSet(inflight), status \in Statuses,
          contentType \in ContentTypes :
          \E body \in Bodies(req.op, status) : Respond(req, status, contentType, body)
    \/ \E req \in BagToSet(inflight), failure \in FetchFailures :
          FetchRejects(req, failure)
    \/ RouterReplace
    \/ Navigate

RaceSpec == Init /\ [][RaceNext]_vars

-----------------------------------------------------------------------------
(* Properties *)

Flag == sessionStorage.session_expired

SessionCleared ==
    /\ token = None
    /\ tokenExpiresAt = None
    /\ localStorage.auth_token = None
    /\ localStorage.auth_token_expires_at = None

ExpiredError ==
    [message |-> <<"Your session has expired. Please login again.">>, status |-> 401]

\* C1: a public method called while a token is stored and isTokenExpired()
\* is true performs no network call, clears the session, sets the
\* session_expired flag, and its request fails with exactly
\* {status: 401, message: "Your session has expired. Please login again."}
\* (logout absorbs that failure; every other method rejects with it).
C1_ExpiredCallShortCircuits ==
    [][(last'.ev = "call" /\ token # None /\ isTokenExpired(Session, now))
       => /\ inflight' = inflight
          /\ SessionCleared'
          /\ Flag' = Some("true")
          /\ last'.requestError = Some(ExpiredError)
          /\ last'.op # "logout"
             => (last'.outcome = "rejected" /\ last'.error = Some(ExpiredError))]_vars

C1_Witness ==
    /\ last.ev = "call"
    /\ last.op = "getTasks"
    /\ last.outcome = "rejected"
    /\ last.error = Some(ExpiredError)
    /\ SessionCleared
    /\ Flag = Some("true")
    /\ inflight = EmptyBag

\* C2: a 401 response to a task operation clears the session (getToken() is
\* null afterwards); the session_expired flag is set and the redirect to the
\* login view is started if and only if the current view is not the login view.
C2_Unauthorized401ClearsSession ==
    [][(last'.ev = "response" /\ last'.op \in TaskOps /\ last'.status = Some(401))
       => /\ getToken(Session') = None
          /\ SessionCleared'
          /\ IF pathname # "/login"
             THEN Flag' = Some("true") /\ nav' = Some("/login")
             ELSE Flag' = Flag /\ nav' = nav]_vars

C2_Witness ==
    /\ last.ev = "response"
    /\ last.op = "deleteTask"
    /\ last.status = Some(401)
    /\ pathname = "/tasks"
    /\ token = None
    /\ Flag = Some("true")
    /\ nav = Some("/login")

\* C3: logout() never raises and leaves the session cleared, in memory and in
\* storage, whether its network call succeeds, returns an error status, is cut
\* short by the pre-flight check or fails at the transport level.
C3_LogoutAlwaysClears ==
    (last.op = "logout" /\ last.outcome # "pending")
    => /\ last.outcome = "resolved"
       /\ last.error = None
       /\ getToken(Session) = None
       /\ getTokenExpiresAt(Session) = None
       /\ SessionCleared

C3_Witness ==
    /\ last.ev = "failure"
    /\ last.op = "logout"
    /\ last.outcome = "resolved"
    /\ last.requestError # None
    /\ last.requestError[1].status = 0
    /\ SessionCleared

\* the step settled login() with a response carrying a token and a lifetime
LoginResolvedWith(l) ==
    /\ l.ev = "response"
    /\ l.op = "login"
    /\ l.outcome = "resolved"
    /\ TruthyString(l.value[1].token)
    /\ l.value[1].expiresInSeconds # None

\* C4: when login() resolves with a response carrying token T and lifetime L
\* seconds, the store holds getToken() = T and getTokenExpiresAt() = (time of
\* storing) + L * 1000; a login that fails stores no token.
C4_LoginStoresTokenAndExpiry ==
    [][/\ LoginResolvedWith(last')
          => /\ getToken(Session') = last'.value[1].token
             /\ getTokenExpiresAt(Session') =
                    Some(now + last'.value[1].expiresInSeconds[1] * 1000)
       /\ (last'.op = "login" /\ last'.outcome = "rejected")
          => (token' = token \/ token' = None)]_vars

\* the step stored a token: setToken(tk, e) from outside, or a login that
\* resolved with a token; StoredLifetime is the lifetime it was given
StoresToken(l) ==
    \/ l.ev = "setToken" /\ TruthyString(l.value[1].token)
    \/ /\ l.ev = "response"
       /\ l.op = "login"
       /\ l.outcome = "resolved"
       /\ TruthyString(l.value[1].token)

StoredLifetime(l) == l.value[1].expiresInSeconds

\* C5: token and expiry are never partially updated: after an operation
\* stores a new token, the recorded expiry (in memory and in storage) is the
\* one that operation wrote, or none; the expiry of a previous token is never
\* left in place.
C5_TokenAndExpiryWrittenTogether ==
    [][(StoresToken(last') /\ token # None /\ token' # token)
       => LET written ==
                  /\ TruthyNumber(StoredLifetime(last'))
                  /\ tokenExpiresAt' = Some(now + StoredLifetime(last')[1] * 1000)
                  /\ localStorage'.auth_token_expires_at =
                         Some(NumberToString(now + StoredLifetime(last')[1] * 1000))
              none ==
                  /\ tokenExpiresAt' = None
                  /\ localStorage'.auth_token_expires_at = None
          IN  written \/ none]_vars

\* C6: setToken(null) leaves getToken() = null and getTokenExpiresAt() = null
\* and removes auth_token and auth_token_expires_at, whatever the store held.
C6_SetTokenNullClears ==
    (last.ev = "setToken" /\ last.value[1].token = None)
    => /\ getToken(Session) = None
       /\ getTokenExpiresAt(Session) = None
       /\ localStorage.auth_token = None
       /\ localStorage.auth_token_expires_at = None

C6_Witness ==
    /\ last.ev = "setToken"
    /\ last.value[1].token = None
    /\ last.value[1].expiresInSeconds = None
    /\ SessionCleared
    /\ now > StartTime

C8_ExpiringSoonIffWithinThreshold ==
    last.ev = "isTokenExpiringSoon"
    => (last.value[1].result
        <=> /\ token # None
            /\ tokenExpiresAt # None
            /\ tokenExpiresAt[1] - now <= last.value[1].thresholdSeconds * 1000)

C8_Witness ==
    /\ last.ev = "isTokenExpiringSoon"
    /\ last.value[1].thresholdSeconds = 1
    /\ last.value[1].result
    /\ token # None
    /\ tokenExpiresAt # None
    /\ tokenExpiresAt[1] - now = 1000

\* C9: a request sent while token T is stored carries Authorization: Bearer T;
\* a request sent while no token is stored has no Authorization key.
C9_BearerHeaderIffToken ==
    [][(last'.ev = "call" /\ last'.outcome = "pending")
       => \E req \in BagToSet(inflight') :
              /\ inflight' = inflight (+) SetToBag({req})
              /\ req.op = last'.op
              /\ IF token # None
                 THEN /\ "Authorization" \in DOMAIN req.headers
                      /\ req.headers["Authorization"] = <<"Bearer ", token[1]>>
                 ELSE "Authorization" \notin DOMAIN req.headers]_vars

C9_Witness ==
    /\ last.ev = "call"
    /\ last.op = "getTasks"
    /\ last.outcome = "pending"
    /\ token = None
    /\ \E req \in BagToSet(inflight) :
           req.op = "getTasks" /\ DOMAIN req.headers = {"Content-Type"}

\* C10: a response with a non-2xx status, whatever its content type and
\* whether or not its body can be parsed, makes request() fail with an error
\* whose status is the response's status (never 0, never another code).
C10_ErrorCarriesHttpStatus ==
    (last.ev = "response" /\ ~(last.status[1] >= 200 /\ last.status[1] <= 299))
    => /\ last.requestError # None
       /\ last.requestError[1].status = last.status[1]
       /\ last.op # "logout"
          => (last.outcome = "rejected" /\ last.error = last.requestError)

\* the step settled a request on a failed response whose body request() could
\* read: a JSON object under a JSON content type, or any body under another
ReadableFailure(l) ==
    /\ l.ev = "response"
    /\ ~(l.response.status >= 200 /\ l.response.status <= 299)
    /\ IF l.response.isJson
       THEN l.response.body.kind = "object"
       ELSE TRUE

\* the first present of detail, message, title; None when none is present
FirstPresent(body) ==
    IF body.detail # None THEN body.detail
    ELSE IF body.message # None THEN body.message
    ELSE body.title

C12_RejectsWithNormalizedError ==
    /\ (last.op \in Ops \ {"logout"} /\ last.requestError # None)
       => /\ last.outcome = "rejected"
          /\ last.error = last.requestError
          /\ DOMAIN last.error[1] = {"message", "status"}
          /\ last.error[1].status \in Nat
          /\ IsString(last.error[1].message)
    /\ (ReadableFailure(last) /\ last.op # "logout")
       => last.error[1].status = last.response.status

\* C13: when fetch() itself rejects, request() fails with status 0 and the
\* message chosen from the failure text: "Failed to fetch" first, then
\* "NetworkError", then "CORS", else a generic retry message; the session is
\* as it was (logout() alone goes on to clear it), and every other operation
\* rejects with that error.
C13_TransportFaultIsStatusZero ==
    [][last'.ev = "failure"
       => LET text == last'.failure.message
              expected ==
                  IF ~last'.failure.isError
                  THEN <<"An unexpected error occurred. Please try again.">>
                  ELSE IF Includes(text, "Failed to fetch")
                  THEN <<"Unable to connect to the server. Please check your internet connection and try again.">>
                  ELSE IF Includes(text, "NetworkError")
                  THEN <<"Network error. Please check your internet connection and try again.">>
                  ELSE IF Includes(text, "CORS")
                  THEN <<"Service temporarily unavailable. Please try again later.">>
                  ELSE <<"An error occurred. Please try again.">>
          IN  /\ last'.requestError = Some([message |-> expected, status |-> 0])
              /\ sessionStorage' = sessionStorage
              /\ nav' = nav
              /\ last'.op # "logout"
                 => /\ last'.outcome = "rejected"
                    /\ last'.error = last'.requestError
                    /\ Session' = Session]_vars

C13_Witness ==
    /\ last.ev = "failure"
    /\ last.op = "getTasks"
    /\ Includes(last.failure.message, "Failed to fetch")
    /\ Includes(last.failure.message, "CORS")
    /\ last.outcome = "rejected"
    /\ last.error = Some([message |-> ConnectMessage, status |-> 0])
    /\ token # None

\* C14: a response with status 204 makes the operation resolve with an empty
\* result and no error, whatever the content type says and without the body
\* being read.
C14_NoContentResolvesEmpty ==
    (last.ev = "response" /\ last.response.status = 204)
    => /\ last.outcome = "resolved"
       /\ last.error = None
       /\ last.requestError = None
       /\ last.op # "logout" => last.value = Some(EmptyObject)

C14_Witness ==
    /\ last.ev = "response"
    /\ last.op = "updateTask"
    /\ last.response.status = 204
    /\ last.response.isJson
    /\ last.outcome = "resolved"
    /\ last.value = Some(EmptyObject)

\* an interval of the watcher is set
WatcherActive == timers # {}

\* a token with a recorded expiry is stored and its remaining time is <= 0
StoredTokenExpired ==
    /\ token # None
    /\ tokenExpiresAt # None
    /\ tokenExpiresAt[1] - now <= 0

\* C15: a check of the watcher (on activation or on an interval tick) that
\* finds a stored token whose remaining time is <= 0 clears the session, sets
\* the session_expired flag and asks the router for /login, and does nothing
\* else (no warning, warningShown as it was); and while intervals keep firing
\* an expired session does not last: the session is cleared, unless the
\* watcher is deactivated or a new expiry is stored first.
C15_WatcherEndsExpiredSession ==
    /\ [][(last'.ev \in {"mount", "options", "check"} /\ view' = "tasks"
           /\ last'.check # None /\ StoredTokenExpired)
          => /\ last'.check[1].expired
             /\ SessionCleared'
             /\ Flag' = Some("true")
             /\ route' = Some("/login")
             /\ last'.toast = None
             /\ watcher'.warningShown = watcher.warningShown]_vars
    /\ (WatcherActive /\ StoredTokenExpired)
       ~> (SessionCleared \/ ~WatcherActive \/ ~StoredTokenExpired)

C15_Witness ==
    /\ last.ev = "check"
    /\ last.check[1].expired
    /\ SessionCleared
    /\ Flag = Some("true")
    /\ route = Some("/login")
    /\ WatcherActive

\* the step ran a check that raised the soon-to-expire warning
Warned(l) == l.ev \in {"mount", "options", "check"} /\ l.toast # None

\* C16 as stated: a check raises the warning only when 0 < remaining <=
\* threshold and warningShown is false, and then warningShown is true.
C16_WarnsOnlyWithinThreshold ==
    [][(view' = "tasks" /\ Warned(last'))
       => /\ tokenExpiresAt # None
          /\ 0 < tokenExpiresAt[1] - now
          /\ tokenExpiresAt[1] - now <= watcher'.warningThresholdSeconds * 1000
          /\ ~watcher.warningShown
          /\ watcher'.warningShown]_vars

\* the whole seconds left until the recorded expiry
WholeSecondsLeft == (tokenExpiresAt[1] - now) \div 1000

\* C16 amended: a check raises the warning only when the remaining time is
\* above 0, its whole seconds (rounded down) are <= threshold and
\* warningShown is false, and then warningShown is true; a check that finds
\* warningShown true while the remaining time is still so raises no warning
\* and leaves warningShown true: at most one warning over such a run.
C16_WarnsOncePerWindow ==
    [][/\ (view' = "tasks" /\ Warned(last'))
          => /\ token # None
             /\ tokenExpiresAt # None
             /\ 0 < tokenExpiresAt[1] - now
             /\ WholeSecondsLeft <= watcher'.warningThresholdSeconds
             /\ ~watcher.warningShown
             /\ watcher'.warningShown
             /\ last'.toast[1].title = "Session Expiring Soon"
       /\ (/\ last'.ev \in {"options", "check"}
           /\ last'.check # None
           /\ watcher.warningShown
           /\ token # None
           /\ tokenExpiresAt # None
           /\ 0 < tokenExpiresAt[1] - now
           /\ WholeSecondsLeft <= watcher'.warningThresholdSeconds)
          => (last'.toast = None /\ watcher'.warningShown)]_vars

C16_Witness ==
    /\ last.ev = "check"
    /\ last.toast = None
    /\ last.check # None
    /\ ~last.check[1].expired
    /\ watcher.warningShown
    /\ token # None
    /\ tokenExpiresAt # None
    /\ tokenExpiresAt[1] - now = 500
    /\ watcher.warningThresholdSeconds = 0

\* C17: a watcher that is unmounted or not enabled has no interval set, and a
\* check runs only in a mounted, enabled watcher: after the deactivation no
\* tick clears the session, sets the flag, navigates or warns; a watcher
\* started with enabled = false runs no check at all.
C17_DeactivatedWatcherNeverChecks ==
    /\ [](/\ (~watcher.mounted \/ ~watcher.enabled) => timers = {}
          /\ (watcher.mounted /\ watcher.enabled)
             => timers = {Timer(watcher.intervalRef[1],
                                watcher.warningThresholdSeconds)})
    /\ [][/\ ("check" \in DOMAIN last' /\ last'.check # None)
             => (watcher'.mounted /\ watcher'.enabled)
          /\ (~watcher'.mounted \/ ~watcher'.enabled)
             => (last'.ev # "check" /\ ("check" \in DOMAIN last' => last'.check = None))
          /\ (last'.ev = "mount" /\ view' = "tasks" /\ ~watcher'.enabled)
             => /\ last'.check = None
                /\ last'.toast = None
                /\ Session' = Session
                /\ sessionStorage' = sessionStorage
                /\ route' = route]_vars

C17_Witness ==
    /\ last.ev = "options"
    /\ watcher.mounted
    /\ ~watcher.enabled
    /\ watcher.intervalRef # None
    /\ timers = {}
    /\ StoredTokenExpired

\* C18: the login view, when it mounts, shows the session-expired warning if
\* and only if the flag is "true", and the flag is absent after the mount;
\* the flag appears again only by an event that ends a session, so a later
\* mount without one shows no warning.
C18_FlagIsConsumedOnce ==
    [][/\ (last'.ev = "mount" /\ view' = "login")
          => /\ (last'.toast = Some(SessionExpiredToast)) <=> (Flag = Some("true"))
             /\ last'.toast # None => last'.toast = Some(SessionExpiredToast)
             /\ Flag' = None
       /\ (Flag' # None /\ Flag = None)
          => ("check" \in DOMAIN last' /\ last'.check # None /\ last'.check[1].expired)]_vars

C18_Witness ==
    /\ last.ev = "mount"
    /\ view = "login"
    /\ last.toast = Some(SessionExpiredToast)
    /\ Flag = None

\* the path the gate is to serve for a request of path p
Gated(p, hasCookie) ==
    IF p = "/tasks" /\ ~hasCookie THEN "/login"
    ELSE IF p = "/login" /\ hasCookie THEN "/tasks"
    ELSE p

\* C19: the gate looks at the auth_token cookie only: a request of /tasks
\* without the cookie is served /login, a request of /login with the cookie
\* is served /tasks, every other request is served the path it asked for,
\* whatever token the client stores; for documents and for router
\* navigations alike.
C19_GateDependsOnCookieOnly ==
    [][/\ (nav # None /\ nav' = None) => pathname' = Gated(nav[1], cookie)
       /\ last'.ev = "route"
          => /\ last'.requested = route[1]
             /\ last'.hasCookie = cookie
             /\ pathname' = Gated(route[1], cookie)]_vars

C19_Witness ==
    /\ last.ev = "route"
    /\ last.requested = "/login"
    /\ last.hasCookie
    /\ pathname = "/tasks"
    /\ token = None

\* C20: useAuth.logout() always resolves, leaves isAuthenticated false in
\* the page that called it and asks the router for /login, however
\* apiClient.logout() settled; useAuth.login() sets isAuthenticated true and
\* asks the router for /tasks only when apiClient.login() resolved, and
\* otherwise resolves with {success: false, error} (error being the message
\* of the rejection), isAuthenticated and the router untouched.
C20_UseAuthSettles ==
    [][last'.ev = "useAuth"
       => /\ last'.outcome = "resolved"
          /\ last'.error = None
          /\ IF last'.op = "logout"
             THEN /\ view = "tasks" => ~isAuthenticated'
                  /\ route' = Some("/login")
             ELSE IF last.outcome = "resolved"
             THEN /\ view = "login" => isAuthenticated'
                  /\ route' = Some("/tasks")
                  /\ last'.value = Some([success |-> TRUE, error |-> None])
             ELSE /\ isAuthenticated' = isAuthenticated
                  /\ route' = route
                  /\ last'.value[1].success = FALSE
                  /\ last'.value[1].error = Some(last.error[1].message)]_vars

C20_Witness ==
    /\ last.ev = "useAuth"
    /\ last.op = "login"
    /\ last.settled = "rejected"
    /\ last.value[1].success = FALSE
    /\ last.value[1].error = Some(<<"detail text">>)
    /\ view = "login"
    /\ ~isAuthenticated
    /\ route = None

\* the list fetches among the calls cs
Fetches(cs) == [c \in {x \in BagToSet(cs) : x.op = "getTasks"} |-> cs[c]]

\* the step settled apiClient's call of a mutation of useTasks
MutationSettled(l) ==
    /\ l.ev \in {"mutate", "response", "failure"}
    /\ l.settled # None
    /\ l.settled[1].op \in MutationOps

\* the step settled the re-fetch that a mutation of useTasks awaited
RefetchSettled(l) ==
    /\ l.ev \in {"response", "failure"}
    /\ l.settled # None
    /\ l.settled[1].op = "getTasks"
    /\ l.settled[1].awaitedBy # None

\* C21: in useTasks a mutation whose API call succeeds calls the list fetch
\* exactly once and returns {success: true} only when that fetch has
\* settled, however it settled; a mutation whose API call fails returns
\* {success: false, error: message or default}, fetches nothing and leaves
\* tasks and pagination as they were.
C21_MutationRefetchesOnce ==
    [][/\ (MutationSettled(last') /\ last'.outcome = "resolved")
          => /\ last'.getTasks = 1
             /\ BagCardinality(Fetches(calls')) = BagCardinality(Fetches(calls)) + 1
             /\ BagIn(HookCall("getTasks", last'.settled[1].filters,
                               Some(last'.op)), calls')
             /\ last'.returned = None
       /\ (MutationSettled(last') /\ last'.outcome = "rejected")
          => /\ last'.getTasks = 0
             /\ calls' = calls (-) SetToBag({last'.settled[1]})
             /\ last'.returned # None
             /\ last'.returned[1].success = FALSE
             /\ last'.returned[1].error =
                    Some(IF last'.error[1].message # <<>> THEN last'.error[1].message
                         ELSE CASE last'.op = "createTask" -> <<"Failed to create task">>
                                [] last'.op = "updateTask" -> <<"Failed to update task">>
                                [] OTHER -> <<"Failed to delete task">>)
             /\ hook'.tasks = hook.tasks
             /\ hook'.pagination = hook.pagination
       /\ RefetchSettled(last')
          => /\ last'.returned = Some([success |-> TRUE, error |-> None])
             /\ last'.getTasks = 0
             /\ BagCardinality(Fetches(calls')) = BagCardinality(Fetches(calls)) - 1
       /\ (last'.ev # "idle" /\ "returned" \in DOMAIN last' /\ last'.returned # None
           /\ last'.returned[1].success)
          => RefetchSettled(last')]_vars

C21_Witness ==
    /\ RefetchSettled(last)
    /\ last.settled[1].awaitedBy = Some("deleteTask")
    /\ last.outcome = "rejected"
    /\ last.returned = Some([success |-> TRUE, error |-> None])
    /\ hook.error # None
    /\ BagCardinality(calls) = 1

\* a token is stored and no expiry is recorded for it
TokenWithoutExpiry == token # None /\ tokenExpiresAt = None

\* C22: isTokenExpired() is true while no token is stored and false while a
\* token is stored without a recorded expiry, at every time; a method called
\* in that state is not short-circuited (its request is sent and the session
\* is left alone), and a check of the watcher in that state ends no session:
\* store, flag and router are left as they were.
C22_UnknownLifetimeNeverExpires ==
    /\ [](/\ token = None => isTokenExpired(Session, now)
          /\ TokenWithoutExpiry => ~isTokenExpired(Session, now))
    /\ [][/\ (last'.ev = "call" /\ TokenWithoutExpiry)
             => /\ last'.outcome = "pending"
                /\ last'.requestError = None
                /\ BagCardinality(inflight') = BagCardinality(inflight) + 1
                /\ Session' = Session
                /\ Flag' = Flag
                /\ nav' = nav
          /\ (/\ last'.ev \in {"mount", "options", "check"}
              /\ "check" \in DOMAIN last'
              /\ last'.check # None
              /\ TokenWithoutExpiry)
             => /\ ~last'.check[1].expired
                /\ last'.toast = None
                /\ Session' = Session
                /\ Flag' = Flag
                /\ route' = route]_vars

C22_Witness ==
    /\ last.ev = "call"
    /\ last.op = "logout"
    /\ last.outcome = "pending"
    /\ TokenWithoutExpiry
    /\ now = MaxTime
    /\ WatcherActive
    /\ Flag = None

\* the step ran checkTokenExpiration
CheckRan(l) == l.ev \in {"mount", "options", "check"} /\ "shown" \in DOMAIN l

\* the check of the step found no token or no recorded expiry
FoundNoSession == token = None \/ tokenExpiresAt = None

\* the time that was left when the check of the step ran, in ms
Remaining == tokenExpiresAt[1] - now

\* C23 as stated: a check resets warningShown exactly when it finds no token
\* or no recorded expiry or a remaining time > threshold + 60 s, and leaves it
\* unchanged when the remaining time is above the threshold but not above
\* threshold + 60 s.
C23_ResetBeyondThresholdPlusMargin ==
    [][CheckRan(last')
       => /\ (FoundNoSession
              \/ Remaining > (last'.warningThresholdSeconds + 60) * MsPerSecond)
             => ~watcher'.warningShown
          /\ (last'.shown /\ ~watcher'.warningShown)
             => \/ FoundNoSession
                \/ Remaining > (last'.warningThresholdSeconds + 60) * MsPerSecond
          /\ (/\ ~FoundNoSession
              /\ Remaining > last'.warningThresholdSeconds * MsPerSecond
              /\ Remaining <= (last'.warningThresholdSeconds + 60) * MsPerSecond)
             => watcher'.warningShown = last'.shown]_vars

\* C23: a check sets warningShown false when it finds no token or no recorded
\* expiry, or when the whole seconds of the remaining time (rounded down) are
\* > threshold + 60; a check that finds the whole seconds above the threshold
\* but not above threshold + 60 leaves warningShown as it found it; and while
\* the watcher stays mounted warningShown goes from true to false only by
\* such a check.
C23_ResetOnWholeSeconds ==
    [][/\ CheckRan(last')
          => /\ (FoundNoSession
                 \/ Remaining \div MsPerSecond > last'.warningThresholdSeconds + 60)
                => ~watcher'.warningShown
             /\ (/\ ~FoundNoSession
                 /\ Remaining \div MsPerSecond > last'.warningThresholdSeconds
                 /\ Remaining \div MsPerSecond <= last'.warningThresholdSeconds + 60)
                => watcher'.warningShown = last'.shown
             /\ (last'.shown /\ ~watcher'.warningShown)
                => \/ FoundNoSession
                   \/ Remaining \div MsPerSecond > last'.warningThresholdSeconds + 60
             /\ last'.ev # "mount" => last'.shown = watcher.warningShown
       /\ (watcher.mounted /\ watcher'.mounted
           /\ watcher.warningShown /\ ~watcher'.warningShown)
          => CheckRan(last')]_vars

C23_Witness ==
    /\ last.ev = "check"
    /\ "shown" \in DOMAIN last
    /\ last.shown
    /\ ~watcher.warningShown
    /\ token # None
    /\ tokenExpiresAt # None
    /\ (tokenExpiresAt[1] - now) \div MsPerSecond > last.warningThresholdSeconds + 60
    /\ now > StartTime

\* the steps that end a session: the watcher's check of an expired token,
\* the pre-flight check of request(), the handling of a 401 response
WatcherEnds(l) == CheckRan(l) /\ l.check[1].expired
PreflightEnds(l) == l.ev = "call" /\ l.requestError # None
UnauthorizedEnds(l) == l.ev = "response" /\ l.status = Some(401)
SessionEnds(l) == WatcherEnds(l) \/ PreflightEnds(l) \/ UnauthorizedEnds(l)

\* the state a single cleanup leaves
EndedState == SessionCleared /\ Flag = Some("true")

\* C24: whichever of the watcher's check, the pre-flight check and a 401
\* response ends a session, and in whatever order they run, each leaves token
\* and expiry null in memory and in localStorage; the flag is set by the
\* watcher, by the pre-flight check and by a 401 received outside the login
\* view and is unset by none of them; a cleanup that finds the state a single
\* cleanup leaves changes neither the store nor sessionStorage; and the 401
\* that finds the session empty settles its caller as any 401 does, with the
\* ApiError of the response and nothing else thrown.
C24_CleanupIdempotent ==
    [][SessionEnds(last')
       => /\ SessionCleared'
          /\ (\/ WatcherEnds(last')
              \/ PreflightEnds(last')
              \/ pathname # "/login"
              \/ Flag = Some("true"))
             => Flag' = Some("true")
          /\ EndedState => (Session' = Session /\ sessionStorage' = sessionStorage)
          /\ UnauthorizedEnds(last')
             => /\ last'.requestError # None
                /\ HasStatus(last'.requestError[1])
                /\ last'.outcome = IF last'.op = "logout" THEN "resolved" ELSE "rejected"
                /\ BagCardinality(inflight') = BagCardinality(inflight) - 1]_vars

\* a 401 arrives for a logout of the tasks view after the watcher has ended
\* the session and asked the router for the login view: the header still
\* shows the user as authenticated, so no logout has settled since the page
\* was mounted with the token
C24_Witness ==
    /\ UnauthorizedEnds(last)
    /\ last.op = "logout"
    /\ EndedState
    /\ view = "tasks"
    /\ isAuthenticated
    /\ route = Some("/login")
    /\ nav = Some("/login")
    /\ pathname = "/tasks"
    /\ WatcherActive

\* C25: in every state the ApiClient of the document can be in, that is after
\* every setToken (called directly, or by login, logout, the 401 handling or
\* the pre-flight check) and after every construction, auth_token holds the
\* in-memory token and auth_token_expires_at the decimal string of the
\* in-memory expiry, each absent when the field is null, and an ApiClient
\* constructed from localStorage has the same token and the same expiry.
C25_PersistedEqualsMemory ==
    /\ localStorage.auth_token = token
    /\ localStorage.auth_token_expires_at =
           IF tokenExpiresAt = None THEN None
           ELSE Some(NumberToString(tokenExpiresAt[1]))
    /\ Construct(localStorage).token = token
    /\ Construct(localStorage).tokenExpiresAt = tokenExpiresAt

\* a login has stored a token with a lifetime over another token
C25_Witness ==
    /\ last.ev = "response"
    /\ last.op = "login"
    /\ last.outcome = "resolved"
    /\ token = Some("B")
    /\ tokenExpiresAt = Some(now + MsPerSecond)
    /\ localStorage.auth_token_expires_at = Some(NumberToString(now + MsPerSecond))
    /\ now > StartTime

\* the token a request was sent with, from its Authorization header
SentWith(req) ==
    IF "Authorization" \in DOMAIN req.headers
    THEN Some(req.headers["Authorization"][2])
    ELSE None

\* C26: a 401 response to a request that was sent with a token leaves the
\* stored token alone when it is no longer that token but one a login has
\* stored since.
C26_Late401KeepsNewSession ==
    [][\A req \in BagToSet(inflight) :
          (/\ last'.ev = "response"
           /\ last'.status = Some(401)
           /\ inflight' = inflight (-) SetToBag({req})
           /\ SentWith(req) # None
           /\ token # None
           /\ token # SentWith(req))
          => /\ token' = token
             /\ tokenExpiresAt' = tokenExpiresAt
             /\ localStorage' = localStorage]_vars

\* C27: login() called in any session state sends its request: it is pending
\* on fetch() after the call, and request() has thrown nothing, whatever
\* token and expiry were stored before.
C27_LoginAlwaysContactsServer ==
    [][(last'.ev = "call" /\ last'.op = "login")
       => /\ last'.outcome = "pending"
          /\ last'.requestError = None
          /\ inflight' = inflight (+) SetToBag({Request("login", Session)})]_vars

\* C28: logout() leaves the session_expired flag as it found it, when it is
\* called and when its request is answered or fails, from every session
\* state and with every outcome of the server call.
C28_LogoutLeavesFlag ==
    [][(last'.op = "logout" /\ last'.ev \in {"call", "response", "failure"})
       => Flag' = Flag]_vars

\* C29: after the watcher has ended the session on the tasks view, the login
\* view is eventually shown; stated for the runs the claim singles out, in
\* which the auth_token cookie stays and no token is stored again.
C29_EndedSessionReachesLogin ==
    (WatcherEnds(last) /\ view = "tasks" /\ cookie)
        ~> (view = "login" \/ ~cookie \/ token # None)

\* C30: once every call of the hook has settled and the list was filled
\* without an error, the tasks the hook holds are those the server gave for
\* the filters the hook holds now, and so is the page of its pagination.
C30_NewestFetchWins ==
    (/\ hook.mounted
     /\ calls = EmptyBag
     /\ hook.error = None
     /\ hook.tasks # None
     /\ hook.tasks[1] # <<>>)
    => /\ hook.tasks[1][1].q = hook.filters.q
       /\ hook.pagination.page = hook.filters.page

=============================================================================
